---- MODULE Spec2Model ----
(***************************************************************************)
(* A model of benshields/tftp in several specifications.  Spec is one      *)
(* session: the goroutine started by HandlerObject.Start, the Handle       *)
(* goroutines it spawns for every packet, the RRQ/WRQ response writers and *)
(* the buffered file stream.  SpecServe is the Dispatcher, Server.Serve,   *)
(* with the HandleRequest goroutines and the setup and end of every        *)
(* session, given one datagram of each kind; SpecRequests gives it every   *)
(* form of request, SpecEndpoints read and write requests and adds the     *)
(* reply of each session to its request; FairServe is SpecServe under the  *)
(* fairness of the scheduler and the receive timer.  SpecConn is           *)
(* ReadContinuously                                                        *)
(* with the Conn.Read goroutines on the well-known endpoint.  SpecPacket   *)
(* applies the block-number functions to one packet, SpecCodec the         *)
(* encoders and parsers to byte sequences.                                 *)
(*                                                                         *)
(* A datagram is a record [from, size, op, block, err]: size is the number *)
(* of bytes received, op the first two bytes (readable when size >= 2),    *)
(* block the next two (readable when size >= 4); the payload of a DATA     *)
(* datagram is its size - 4 remaining bytes.  A DATA packet the server     *)
(* sends carries the file bytes [off, off + len).                          *)
(***************************************************************************)
EXTENDS Integers, Sequences, FiniteSets, TLC

\* ------------------------------------------------------------------ bounds
MaxRecv == 2        \* datagrams one session receives on its endpoint
MaxEarly == 1       \* of these, datagrams that arrive while a Handle is still running
MaxBlock == 1       \* block numbers 0..MaxBlock a peer puts in its packets
MaxFileBlocks == 1  \* files on disk hold up to MaxFileBlocks full blocks (+1 byte)
MaxSessions == 2    \* requests the Dispatcher receives on the well-known endpoint
MaxShortPayload == 1  \* payloads shorter than a block have up to MaxShortPayload bytes
MaxDatagrams == 2   \* datagrams that arrive on the well-known endpoint
MaxReaders == 3     \* calls of Conn.Read that ReadContinuously makes

\* ------------------------------------------------------- program constants
BlockSize == 512
BufioSize == 4096
UInt16Mod == 65536
HeaderSize == 4
minRequestPacketSize == 6
RRQ == 1
WRQ == 2
DATA == 3
ACK == 4
ERROR == 5

ClientA == "A"
StrangerB == "B"
NoAddr == "nil"

Min(a, b) == IF a < b THEN a ELSE b

\* ---------------------------------------------------------------- packets
Datagram(from, size, op, block) ==
    [from |-> from, size |-> size, op |-> op, block |-> block, err |-> FALSE]

AckDatagram(from, b) == Datagram(from, HeaderSize, ACK, b)
DataDatagram(from, b, len) == Datagram(from, HeaderSize + len, DATA, b)
ReadErrorDatagram == [from |-> NoAddr, size |-> 0, op |-> 0, block |-> 0, err |-> TRUE]

PayloadLens == {1, BlockSize}
FileSizes == {b * BlockSize + r : b \in 0..MaxFileBlocks, r \in {0, 1}}

\* a well-formed request of either kind, and one of 5 bytes
Requests ==
    {Datagram(ClientA, sz, op, 0) :
        sz \in {minRequestPacketSize - 1, minRequestPacketSize + 4}, op \in {RRQ, WRQ}}

\* a packet of 3 bytes: the opcode and the first byte of a block number 1
ShortDatagram(op) == Datagram(ClientA, HeaderSize - 1, op, 1)

\* what arrives at the endpoint of a session: the packets of its kind from
\* the client, one of them from a stranger, one packet of the other kind and
\* one that is cut off inside the block number
ClientPackets(mode) ==
    IF mode = "read"
    THEN {AckDatagram(ClientA, b) : b \in 0..MaxBlock}
         \cup {AckDatagram(StrangerB, 1), DataDatagram(ClientA, 1, 1), ShortDatagram(ACK)}
    ELSE {DataDatagram(ClientA, b, l) : b \in 0..MaxBlock, l \in PayloadLens}
         \cup {DataDatagram(StrangerB, 1, 1), AckDatagram(ClientA, 1), ShortDatagram(DATA)}

createDataPacket(b, off, len) == [op |-> DATA, block |-> b, off |-> off, len |-> len]
createAckPacket(b) == [op |-> ACK, block |-> b]
createErrorPacket(code, msg) == [op |-> ERROR, code |-> code, msg |-> msg]
internalErrorPacket == createErrorPacket(0, "internal server error")

errNotDef(msg) == createErrorPacket(0, "undefined: " \o msg)
errNoFile == createErrorPacket(1, "file not found")
errAccess == createErrorPacket(3, "access violation")
errMemory == createErrorPacket(4, "disk full or allocation exceeded")
errOperation == createErrorPacket(5, "illegal TFTP operation")
errTID == createErrorPacket(6, "unknown transfer ID")
errFileExists == createErrorPacket(7, "file already exists")
errNoUser == createErrorPacket(8, "no such user")

\* ftpOpenFileError with the checks in another order of preference: a file
\* that is not there is reported as an access violation
ftpOpenFileErrorAsAccess(err) ==
    IF err = "exist" THEN errFileExists
    ELSE IF err \in {"notexist", "permission"} THEN errAccess
    ELSE errNotDef("error occurred while opening file")

\* ftpOpenFileError: the error of os.OpenFile as a TFTP error
ftpOpenFileError(err) ==
    IF err = "exist" THEN errFileExists
    ELSE IF err = "notexist" THEN errNoFile
    ELSE IF err = "permission" THEN errAccess
    ELSE errNotDef("error occurred while opening file")

VARIABLES
    pc,            \* position of the Start goroutine
    conn,          \* packetReader.rwc: "unbound", "open", "closed"
    file,          \* fileReference: "none", "open", "closed"
    openMode,      \* blockStreamer.openMode: "none", "read", "write"
    ctxCancelled,  \* ctx.Done() was closed when Start left its receive loop
    lastPacket,    \* HandlerObject.lastPacket
    remoteAddr,    \* HandlerObject.remoteAddr
    rpos,          \* bufio.Reader: file offset of the next byte handed out
    rbufEnd,       \* bufio.Reader: file offset up to which the buffer is filled
    wbuffered,     \* bufio.Writer: bytes buffered and not yet flushed
    werr,          \* bufio.Writer: sticky error
    diskExists,    \* the named file exists on disk
    diskLen,       \* its length in bytes
    tasks,         \* the Handle goroutines, in the order they were spawned
    written,       \* the chunks [block, n] the write stream accepted, in order
    sent,          \* history: the packets written to the network, in order
    closes,        \* history: the steps of sendErrorAndClose and close(), in order
    timeouts,      \* history: how often the receive timeout fired
    doneErr,       \* the value Start puts on its done channel
    netUp,         \* the network accepts the datagrams written to it
    \* the Dispatcher (Server.Serve) and the sessions it starts
    srvPc,         \* position of the Serve goroutine: "off", "serving", "returned"
    ctxSrvDone,    \* ctxSrv.Done() is closed (cancelServer was called)
    numActiveConns,\* Server.numActiveConns
    sessions,      \* the HandleRequest goroutines, in the order they were started
    cancelType,    \* the CloseType Serve took from cancelChan ("none": nothing yet)
    requestReader, \* srv.requestReader.rwc: "unbound", "open", "closed"
    \* the packet functions applied to one packet
    arg,           \* the packet given to the function
    out,           \* what the function returned (fn = "none": not yet applied)
    \* the well-known Conn read by ReadContinuously
    socket,        \* the datagrams that arrived and were not yet read
    arrived,       \* how many datagrams arrived; datagram k carries payload k
    buffer,        \* Conn.buffer: the payload the last ReadFrom put there
    readers,       \* the goroutines of Conn.Read, in the order they were started
    rcPc,          \* position of the ReadContinuously goroutine
    rcRequest,     \* the Request it is sending on its out channel
    delivered      \* history: the Requests Serve received from that channel

sessionVars == <<pc, conn, file, openMode, ctxCancelled, lastPacket, remoteAddr, rpos,
                 rbufEnd, wbuffered, werr, diskExists, diskLen, tasks, written, sent,
                 closes, timeouts, doneErr, netUp>>
serveVars == <<srvPc, ctxSrvDone, numActiveConns, sessions, cancelType, requestReader>>
packetVars == <<arg, out>>

connVars == <<socket, arrived, buffer, readers, rcPc, rcRequest, delivered>>

vars == <<sessionVars, serveVars, packetVars, connVars>>

\* The parts of the state a specification does not use stay as they are.
ServeIdle ==
    /\ srvPc = "off"
    /\ ctxSrvDone = FALSE
    /\ numActiveConns = 0
    /\ sessions = <<>>
    /\ cancelType = "none"
    /\ requestReader = "unbound"

NoResult == [fn |-> "none", ok |-> FALSE, bn |-> 0]

PacketIdle ==
    /\ arg = ReadErrorDatagram
    /\ out = NoResult

\* Request{nil, nil, nil}
NoRequest == [data |-> 0, err |-> "nil"]

ConnIdle ==
    /\ socket = <<>>
    /\ arrived = 0
    /\ buffer = 0
    /\ readers = <<>>
    /\ rcPc = "off"
    /\ rcRequest = NoRequest
    /\ delivered = <<>>

Init ==
    /\ pc = "setup"
    /\ conn = "unbound"
    /\ file = "none"
    /\ openMode = "none"
    /\ ctxCancelled = FALSE
    /\ lastPacket \in Requests
    /\ remoteAddr = lastPacket.from
    /\ rpos = 0
    /\ rbufEnd = 0
    /\ wbuffered = 0
    /\ werr = FALSE
    /\ diskExists \in BOOLEAN
    /\ diskLen \in FileSizes
    /\ (~diskExists => diskLen = 0)
    /\ tasks = <<>>
    /\ written = <<>>
    /\ sent = <<>>
    /\ closes = <<>>
    /\ timeouts = 0
    /\ doneErr = "none"
    /\ netUp \in BOOLEAN
    /\ ServeIdle
    /\ PacketIdle
    /\ ConnIdle

\* -------------------------------------------------------------- file stream
\* bufio.Reader.Read(p) with len(p) = 512, started with the reader at offset
\* snap: an empty buffer is refilled by one read of the file, then at most
\* 512 buffered bytes are handed out.
blockStreamerRead(snap) ==
    LET filled == IF snap = rbufEnd /\ file = "open"
                  THEN Min(diskLen, rbufEnd + BufioSize) ELSE rbufEnd
        n == Min(BlockSize, filled - snap)
    IN [n |-> n, bufEnd |-> filled,
        err |-> IF n > 0 THEN "nil" ELSE IF file = "open" THEN "EOF" ELSE "closed"]

\* bufio.Writer.Write(p) with len(p) = l, started with snap bytes buffered.
blockStreamerWrite(snap, l) ==
    IF werr THEN [ok |-> FALSE, buffered |-> snap, disk |-> diskLen, werr |-> TRUE]
    ELSE IF l > BufioSize - snap
    THEN IF file # "open"
         THEN [ok |-> FALSE, buffered |-> IF snap = 0 THEN 0 ELSE BufioSize,
               disk |-> diskLen, werr |-> TRUE]
         ELSE IF snap = 0
              THEN [ok |-> TRUE, buffered |-> 0, disk |-> diskLen + l, werr |-> FALSE]
              ELSE [ok |-> TRUE, buffered |-> l - (BufioSize - snap),
                    disk |-> diskLen + BufioSize, werr |-> FALSE]
    ELSE [ok |-> TRUE, buffered |-> snap + l, disk |-> diskLen, werr |-> FALSE]

\* blockStreamer.Close: a write stream flushes its buffer, then the file is
\* closed whatever the flush returned.
blockStreamerClose ==
    /\ file' = "closed"
    /\ IF openMode = "write" /\ ~werr /\ wbuffered > 0
       THEN IF file = "open"
            THEN /\ diskLen' = diskLen + wbuffered
                 /\ wbuffered' = 0
                 /\ werr' = FALSE
            ELSE /\ werr' = TRUE
                 /\ UNCHANGED <<diskLen, wbuffered>>
       ELSE UNCHANGED <<diskLen, wbuffered, werr>>

\* ------------------------------------------------------------- the session
\* sendPacket: WriteTo succeeds when the endpoint is open and the network
\* takes the datagram; the packet always goes to remoteAddr.
sendOk == conn = "open" /\ netUp

sendPacket(id, pkt) ==
    IF sendOk THEN <<[id |-> id, to |-> remoteAddr, pkt |-> pkt]>> ELSE <<>>

\* HandlerObject.close, the calls it makes: packetReader.rwc.Close(), then
\* ResponseWriter.Close() if there is a response writer
handlerClose ==
    <<"rwc.Close">> \o (IF file = "none" THEN <<>> ELSE <<"ResponseWriter.Close">>)

\* sendErrorAndClose: one attempt to send the ERROR, then close(): the
\* endpoint first, then the response writer if there is one.
sendErrorAndClose(id, epkt) ==
    /\ sent' = sent \o sendPacket(id, epkt)
    /\ closes' = closes \o <<"sendPacket">> \o handlerClose
    /\ conn' = "closed"
    /\ IF file = "none"
       THEN UNCHANGED <<file, diskLen, wbuffered, werr>>
       ELSE blockStreamerClose

\* nextBlockNumber without the uint16 wrap: the block after 65535 is refused
RrqNextBlockNumberNoWrap(pak) ==
    IF pak.size < 2 THEN [ok |-> FALSE, bn |-> 0]
    ELSE IF pak.op = RRQ THEN [ok |-> TRUE, bn |-> 1]
    ELSE IF pak.op = ACK /\ pak.size >= HeaderSize /\ pak.block + 1 < UInt16Mod
         THEN [ok |-> TRUE, bn |-> pak.block + 1]
    ELSE [ok |-> FALSE, bn |-> 0]

RrqNextBlockNumber(pak) ==
    IF pak.size < 2 THEN [ok |-> FALSE, bn |-> 0]
    ELSE IF pak.op = RRQ THEN [ok |-> TRUE, bn |-> 1]
    ELSE IF pak.op = ACK
         THEN IF pak.size < HeaderSize THEN [ok |-> FALSE, bn |-> 0]
              ELSE [ok |-> TRUE, bn |-> (pak.block + 1) % UInt16Mod]
    ELSE [ok |-> FALSE, bn |-> 0]

\* nextBlockNumber taking the block number of a DATA packet without looking
\* at its length
WrqNextBlockNumberNoLength(pak) ==
    IF pak.size < 2 THEN [ok |-> FALSE, bn |-> 0]
    ELSE IF pak.op = WRQ THEN [ok |-> TRUE, bn |-> 0]
    ELSE IF pak.op = DATA THEN [ok |-> TRUE, bn |-> pak.block]
    ELSE [ok |-> FALSE, bn |-> 0]

WrqNextBlockNumber(pak) ==
    IF pak.size < 2 THEN [ok |-> FALSE, bn |-> 0]
    ELSE IF pak.op = WRQ THEN [ok |-> TRUE, bn |-> 0]
    ELSE IF pak.op = DATA
         THEN IF pak.size < HeaderSize THEN [ok |-> FALSE, bn |-> 0]
              ELSE [ok |-> TRUE, bn |-> pak.block]
    ELSE [ok |-> FALSE, bn |-> 0]

\* readData: the bytes after the opcode and the block number
readData(pak) == IF pak.size > HeaderSize THEN pak.size - HeaderSize ELSE 0

Running == {t \in DOMAIN tasks : tasks[t].pc # "done"}

\* seen, early, off and n are history: how many packets had been sent when the
\* packet arrived, whether a Handle was still running then, and the stream
\* call made for the packet (n = -1: none)
Task(pkt) ==
    [pkt |-> pkt, pc |-> "spawned", resp |-> internalErrorPacket,
     seen |-> Len(sent), early |-> Running # {}, off |-> 0, n |-> -1]

\* go handlerObject.Handle(packet)
Spawn(pkt) == Append(tasks, Task(pkt))

\* os.OpenFile in blockStreamer.Open: what it can return for a file that
\* exists or not on disk ("other": any failure that is none of the three
\* ftpOpenFileError tells apart)
OpenResults(mode) ==
    IF mode = "read"
    THEN IF diskExists THEN {"nil", "permission", "other"} ELSE {"notexist"}
    ELSE IF diskExists THEN {"exist"} ELSE {"nil", "permission", "other"}

\* readFilename and readEncodingFlag: a request of fewer than
\* minRequestPacketSize bytes is refused
readFilename(pak) == pak.size >= minRequestPacketSize

\* the error setup returns: badRequestError of setupPacketHandler when the
\* request does not parse, else what newPacketHandler makes of the open error
setupError(openErr) ==
    IF openErr = "badRequest"
    THEN errNotDef("error occurred while reading opcode in Request packet")
    ELSE ftpOpenFileError(openErr)

\* Start, up to the receive loop: setup (bind the ephemeral endpoint, parse
\* the request, open the file), then on failure sendErrorAndClose and report,
\* on success spawn Handle(lastPacket).  A failed bind leaves packetReader
\* nil, and sendErrorAndClose dereferences it: the process panics.  The
\* request is parsed before the file is opened.
StartSetup ==
    /\ pc = "setup"
    /\ \E bindOk \in BOOLEAN :
        IF ~bindOk
        THEN /\ pc' = "panic"
             /\ UNCHANGED <<conn, file, openMode, diskExists, diskLen, tasks, sent,
                            closes, doneErr, wbuffered, werr>>
        ELSE LET mode == IF lastPacket.op = RRQ THEN "read" ELSE "write"
             IN \E openErr \in (IF readFilename(lastPacket) THEN OpenResults(mode)
                                ELSE {"badRequest"}) :
                IF openErr = "nil"
                THEN /\ pc' = "select"
                     /\ conn' = "open"
                     /\ file' = "open"
                     /\ openMode' = mode
                     /\ diskExists' = TRUE
                     /\ tasks' = Spawn(lastPacket)
                     /\ diskLen' = IF mode = "read" THEN diskLen ELSE 0
                     /\ UNCHANGED <<sent, closes, doneErr, wbuffered, werr>>
                ELSE \* the endpoint is bound and no response writer exists:
                     \* the ERROR is sent and close() closes the endpoint only
                     /\ pc' = "report"
                     /\ doneErr' = "setupErr"
                     /\ sent' = IF netUp
                                THEN Append(sent, [id |-> 0, to |-> remoteAddr,
                                                   pkt |-> setupError(openErr)])
                                ELSE sent
                     /\ closes' = closes \o <<"sendPacket">> \o handlerClose
                     /\ conn' = "closed"
                     /\ UNCHANGED <<file, openMode, diskExists, diskLen, tasks,
                                    wbuffered, werr>>
    /\ UNCHANGED <<ctxCancelled, lastPacket, remoteAddr, rpos, rbufEnd, written,
                   timeouts, netUp>>
    /\ UNCHANGED <<serveVars, packetVars, connVars>>

\* case packet := <-in: a datagram read from the endpoint
RecvPacket(pkt) ==
    /\ pc = "select"
    /\ conn = "open"
    /\ Len(tasks) < MaxRecv + 1
    /\ Running # {} => Cardinality({t \in DOMAIN tasks : tasks[t].early}) < MaxEarly
    /\ lastPacket' = pkt
    /\ tasks' = Spawn(pkt)
    /\ UNCHANGED <<pc, conn, file, openMode, ctxCancelled, remoteAddr, rpos, rbufEnd,
                   wbuffered, werr, diskExists, diskLen, written, sent, closes,
                   timeouts, doneErr, netUp>>
    /\ UNCHANGED <<serveVars, packetVars, connVars>>

\* case packet := <-in: ReadFrom failed on the closed endpoint and Conn.Read
\* delivered the failure as a Request
RecvError ==
    /\ pc = "select"
    /\ conn = "closed"
    /\ Len(tasks) < MaxRecv + 1
    /\ lastPacket' = ReadErrorDatagram
    /\ tasks' = Spawn(ReadErrorDatagram)
    /\ UNCHANGED <<pc, conn, file, openMode, ctxCancelled, remoteAddr, rpos, rbufEnd,
                   wbuffered, werr, diskExists, diskLen, written, sent, closes,
                   timeouts, doneErr, netUp>>
    /\ UNCHANGED <<serveVars, packetVars, connVars>>

\* case <-ctxTimeout.Done(): the 5 seconds passed without a datagram, or the
\* Dispatcher cancelled ctx (its child ctxTimeout is then done as well) and
\* the select took this case.  Start reports ctx.Err().
Timeout ==
    /\ pc = "select"
    /\ \E cancelled \in BOOLEAN :
        /\ ctxCancelled' = cancelled
        /\ doneErr' = IF cancelled THEN "Canceled" ELSE "nil"
    /\ pc' = "report"
    /\ timeouts' = timeouts + 1
    /\ sendErrorAndClose(0, errNotDef("connection timeout"))
    /\ UNCHANGED <<openMode, lastPacket, remoteAddr, rpos, rbufEnd, diskExists, tasks,
                   written, netUp>>
    /\ UNCHANGED <<serveVars, packetVars, connVars>>

\* case <-ctx.Done(): the Dispatcher cancelled ctx and the select took this case
Shutdown ==
    /\ pc = "select"
    /\ ctxCancelled' = TRUE
    /\ pc' = "report"
    /\ doneErr' = "connection's context closed"
    /\ sendErrorAndClose(0, errNotDef("server is shutting down"))
    /\ UNCHANGED <<openMode, lastPacket, remoteAddr, rpos, rbufEnd, diskExists, tasks,
                   written, timeouts, netUp>>
    /\ UNCHANGED <<serveVars, packetVars, connVars>>

\* RrqResponseWriter.WriteResponse: read 512 bytes first, then derive the
\* block number from the packet.
RrqWriteResponse(t) ==
    LET pak == tasks[t].pkt
        snap == rpos
        r == blockStreamerRead(snap)
        nb == RrqNextBlockNumber(pak)
        resp == IF r.err = "closed" \/ ~nb.ok THEN internalErrorPacket
                ELSE createDataPacket(nb.bn, snap, r.n)
    IN /\ rpos' = snap + r.n
       /\ rbufEnd' = r.bufEnd
       /\ tasks' = [tasks EXCEPT ![t].pc = "send", ![t].resp = resp,
                                 ![t].off = snap, ![t].n = r.n]
       /\ UNCHANGED <<wbuffered, werr, diskLen, written>>

\* WrqResponseWriter.WriteResponse: block number from the packet; a block
\* number other than 0 has its payload written; then the ACK.
WrqWriteResponse(t) ==
    LET pak == tasks[t].pkt
        snap == wbuffered
        nb == WrqNextBlockNumber(pak)
        w == blockStreamerWrite(snap, readData(pak))
    IN IF nb.ok /\ nb.bn # 0
       THEN /\ wbuffered' = w.buffered
            /\ diskLen' = w.disk
            /\ werr' = w.werr
            /\ written' = IF w.ok THEN Append(written, [block |-> nb.bn, n |-> readData(pak)])
                          ELSE written
            /\ tasks' = [tasks EXCEPT ![t].pc = "send", ![t].off = snap,
                            ![t].n = IF w.ok THEN readData(pak) ELSE 0,
                            ![t].resp = IF w.ok THEN createAckPacket(nb.bn)
                                        ELSE internalErrorPacket]
            /\ UNCHANGED <<rpos, rbufEnd>>
       ELSE /\ tasks' = [tasks EXCEPT ![t].pc = "send",
                            ![t].resp = IF nb.ok THEN createAckPacket(nb.bn)
                                        ELSE internalErrorPacket]
            /\ UNCHANGED <<rpos, rbufEnd, wbuffered, werr, diskLen, written>>

HandleWriteResponse(t) ==
    /\ tasks[t].pc = "spawned"
    /\ IF openMode = "read" THEN RrqWriteResponse(t) ELSE WrqWriteResponse(t)
    /\ UNCHANGED <<pc, conn, file, openMode, ctxCancelled, lastPacket, remoteAddr,
                   diskExists, sent, closes, timeouts, doneErr, netUp>>
    /\ UNCHANGED <<serveVars, packetVars, connVars>>

\* The file stream has no lock and every Handle runs in a goroutine of its
\* own, so the stream calls of two Handles can run at the same time (a data
\* race on the bufio position).  Both calls then start from the same position
\* and the position is stored once: two reads return the same bytes, and of
\* two writes one overwrites the other in the buffer.
WritesPayload(pak) == WrqNextBlockNumber(pak).ok /\ WrqNextBlockNumber(pak).bn # 0

HandleRace(t, u) ==
    /\ t # u
    /\ tasks[t].pc = "spawned"
    /\ tasks[u].pc = "spawned"
    /\ IF openMode = "read"
       THEN LET r == blockStreamerRead(rpos)
                respOf(v) ==
                    IF r.err = "closed" \/ ~RrqNextBlockNumber(tasks[v].pkt).ok
                    THEN internalErrorPacket
                    ELSE createDataPacket(RrqNextBlockNumber(tasks[v].pkt).bn, rpos, r.n)
            IN /\ rpos' = rpos + r.n
               /\ rbufEnd' = r.bufEnd
               /\ tasks' = [tasks EXCEPT
                               ![t].pc = "send", ![t].resp = respOf(t),
                               ![t].off = rpos, ![t].n = r.n,
                               ![u].pc = "send", ![u].resp = respOf(u),
                               ![u].off = rpos, ![u].n = r.n]
               /\ UNCHANGED <<wbuffered, werr, diskLen, written>>
       ELSE LET wt == blockStreamerWrite(wbuffered, readData(tasks[t].pkt))
                wu == blockStreamerWrite(wbuffered, readData(tasks[u].pkt))
                ackOf(v, w) == IF w.ok
                               THEN createAckPacket(WrqNextBlockNumber(tasks[v].pkt).bn)
                               ELSE internalErrorPacket
            IN /\ WritesPayload(tasks[t].pkt)
               /\ WritesPayload(tasks[u].pkt)
               \* the call of u stores its result last
               /\ wbuffered' = wu.buffered
               /\ diskLen' = wu.disk
               /\ werr' = wu.werr
               /\ written' = IF wu.ok
                             THEN Append(written, [block |-> tasks[u].pkt.block,
                                                   n |-> readData(tasks[u].pkt)])
                             ELSE written
               /\ tasks' = [tasks EXCEPT
                               ![t].pc = "send", ![t].resp = ackOf(t, wt),
                               ![t].off = wbuffered,
                               ![t].n = IF wt.ok THEN readData(tasks[t].pkt) ELSE 0,
                               ![u].pc = "send", ![u].resp = ackOf(u, wu),
                               ![u].off = wbuffered,
                               ![u].n = IF wu.ok THEN readData(tasks[u].pkt) ELSE 0]
               /\ UNCHANGED <<rpos, rbufEnd>>
    /\ UNCHANGED <<pc, conn, file, openMode, ctxCancelled, lastPacket, remoteAddr,
                   diskExists, sent, closes, timeouts, doneErr, netUp>>
    /\ UNCHANGED <<serveVars, packetVars, connVars>>

\* Handle, after WriteResponse: sendPacket(response), and when that fails
\* sendDefaultErrorAndClose.
HandleSend(t) ==
    /\ tasks[t].pc = "send"
    /\ tasks' = [tasks EXCEPT ![t].pc = "done"]
    /\ IF sendOk
       THEN /\ sent' = sent \o sendPacket(t, tasks[t].resp)
            /\ UNCHANGED <<conn, file, wbuffered, werr, diskLen, closes>>
       ELSE sendErrorAndClose(t, internalErrorPacket)
    /\ UNCHANGED <<pc, openMode, ctxCancelled, lastPacket, remoteAddr, rpos, rbufEnd,
                   diskExists, written, timeouts, doneErr, netUp>>
    /\ UNCHANGED <<serveVars, packetVars, connVars>>

Next ==
    \/ StartSetup
    \/ \E pkt \in ClientPackets(openMode) : RecvPacket(pkt)
    \/ RecvError
    \/ Timeout
    \/ Shutdown
    \/ \E t \in DOMAIN tasks : HandleWriteResponse(t)
    \/ \E t, u \in DOMAIN tasks : HandleRace(t, u)
    \/ \E t \in DOMAIN tasks : HandleSend(t)

Spec == Init /\ [][Next]_vars

\* ------------------------------------------------------- packet functions
\* The block-number functions of the response writers, applied to one packet
\* each: any opcode, any length around the 4-byte header, and block numbers
\* on both sides of the 16-bit wrap.
SessionIdle ==
    /\ pc = "off"
    /\ conn = "unbound"
    /\ file = "none"
    /\ openMode = "none"
    /\ ctxCancelled = FALSE
    /\ lastPacket = ReadErrorDatagram
    /\ remoteAddr = NoAddr
    /\ rpos = 0
    /\ rbufEnd = 0
    /\ wbuffered = 0
    /\ werr = FALSE
    /\ diskExists = FALSE
    /\ diskLen = 0
    /\ tasks = <<>>
    /\ written = <<>>
    /\ sent = <<>>
    /\ closes = <<>>
    /\ timeouts = 0
    /\ doneErr = "none"
    /\ netUp = TRUE

WrapBlocks ==
    {b % UInt16Mod : b \in (UInt16Mod - MaxBlock - 1)..(UInt16Mod + MaxBlock)}

Packets ==
    {Datagram(ClientA, sz, 0, 0) : sz \in 0..1}
    \cup {Datagram(ClientA, sz, op, 0) : sz \in 2..(HeaderSize - 1), op \in 0..ERROR}
    \cup {Datagram(ClientA, sz, op, b) :
            sz \in {HeaderSize, HeaderSize + 1, HeaderSize + BlockSize},
            op \in 0..ERROR, b \in WrapBlocks}

InitPacket ==
    /\ SessionIdle
    /\ ServeIdle
    /\ ConnIdle
    /\ arg \in Packets
    /\ out = NoResult

ApplyRrqNextBlockNumber ==
    /\ out.fn = "none"
    /\ out' = [fn |-> "RrqNextBlockNumber", ok |-> RrqNextBlockNumber(arg).ok,
               bn |-> RrqNextBlockNumber(arg).bn]
    /\ UNCHANGED <<arg, sessionVars, serveVars, connVars>>

ApplyWrqNextBlockNumber ==
    /\ out.fn = "none"
    /\ out' = [fn |-> "WrqNextBlockNumber", ok |-> WrqNextBlockNumber(arg).ok,
               bn |-> WrqNextBlockNumber(arg).bn]
    /\ UNCHANGED <<arg, sessionVars, serveVars, connVars>>

NextPacket ==
    \/ ApplyRrqNextBlockNumber
    \/ ApplyWrqNextBlockNumber

SpecPacket == InitPacket /\ [][NextPacket]_vars

\* -------------------------------------------------------------------- codec
\* The encoders and parsers of DATA and ACK packets on byte sequences.
\* binary.Write of a little-endian uint16
PutUint16LittleEndian(v) == <<v % 256, v \div 256>>

\* binary.Write(buffer, binary.BigEndian, v) of a uint16
PutUint16(v) == <<v \div 256, v % 256>>

\* binary.Read(bytesReader, binary.BigEndian, &v) of a uint16 at offset
Uint16(raw, offset) == raw[offset + 1] * 256 + raw[offset + 2]

\* binaryWrite of an opcode, a block number and a byte slice
binaryWrite(op, blockNumber, data) == PutUint16(op) \o PutUint16(blockNumber) \o data

\* AckPacket.bytes and DataPacket.bytes
ackPacketBytes(ackPacket) == binaryWrite(ACK, ackPacket.blockNumber, <<>>)

dataPacketBytes(dataPacket) == binaryWrite(DATA, dataPacket.blockNumber, dataPacket.data)

\* readOpCode, readBlockNumber and readData of a Packet whose data is raw
readOpCode(raw) ==
    IF Len(raw) < 2 THEN [ok |-> FALSE, op |-> 0] ELSE [ok |-> TRUE, op |-> Uint16(raw, 0)]

readBlockNumber(raw) ==
    IF Len(raw) < HeaderSize THEN [ok |-> FALSE, blockNumber |-> 0]
    ELSE [ok |-> TRUE, blockNumber |-> Uint16(raw, 2)]

readDataBytes(raw) ==
    IF Len(raw) <= HeaderSize THEN <<>> ELSE SubSeq(raw, HeaderSize + 1, Len(raw))

parseDataPacket(raw) ==
    IF ~readOpCode(raw).ok \/ readOpCode(raw).op # DATA \/ ~readBlockNumber(raw).ok
    THEN [ok |-> FALSE, blockNumber |-> 0, data |-> <<>>]
    ELSE [ok |-> TRUE, blockNumber |-> readBlockNumber(raw).blockNumber,
          data |-> readDataBytes(raw)]

\* the packets encoded: every block number, with no payload, short payloads
\* and full blocks of the lowest and the highest byte
CodecBytes == {0, 255}

CodecPayloads ==
    UNION {[1..n -> CodecBytes] : n \in 0..MaxShortPayload}
    \cup {[i \in 1..BlockSize |-> c] : c \in CodecBytes}

InitCodec ==
    /\ SessionIdle
    /\ ServeIdle
    /\ ConnIdle
    /\ arg \in [blockNumber : 0..(UInt16Mod - 1), data : CodecPayloads]
    /\ out = NoResult

\* parseDataPacket of the bytes of createDataPacket(blockNumber, data)
ApplyDataRoundTrip ==
    /\ out.fn = "none"
    /\ LET raw == dataPacketBytes(arg)
       IN out' = [fn |-> "parseDataPacket", ok |-> parseDataPacket(raw).ok,
                  bn |-> parseDataPacket(raw).blockNumber,
                  data |-> parseDataPacket(raw).data, size |-> Len(raw)]
    /\ UNCHANGED <<arg, sessionVars, serveVars, connVars>>

\* readBlockNumber of the bytes of createAckPacket(blockNumber)
ApplyAckRoundTrip ==
    /\ out.fn = "none"
    /\ LET raw == ackPacketBytes(arg)
       IN out' = [fn |-> "readBlockNumber", ok |-> readBlockNumber(raw).ok,
                  bn |-> readBlockNumber(raw).blockNumber,
                  data |-> <<>>, size |-> Len(raw)]
    /\ UNCHANGED <<arg, sessionVars, serveVars, connVars>>

NextCodec ==
    \/ ApplyDataRoundTrip
    \/ ApplyAckRoundTrip

SpecCodec == InitCodec /\ [][NextCodec]_vars

\* -------------------------------------------------------------- dispatcher
\* Server.Serve with the HandleRequest goroutine of every request and, of
\* each session, its setup and its end.  Strings are tuples of ASCII codes.
octetStr == <<111, 99, 116, 101, 116>>
netasciiStr == <<110, 101, 116, 97, 115, 99, 105, 105>>

\* the modes a request carries: octet, OCTET, NetAscii, mail
Modes == {octetStr, <<79, 67, 84, 69, 84>>,
          <<78, 101, 116, 65, 115, 99, 105, 105>>, <<109, 97, 105, 108>>}

\* strings.ToLower
ToLower(str) ==
    [i \in DOMAIN str |-> IF str[i] \in 65..90 THEN str[i] + 32 ELSE str[i]]

modeToEncodingFlag(mode) ==
    IF ToLower(mode) = netasciiStr THEN [ok |-> TRUE, flag |-> "netascii"]
    ELSE IF ToLower(mode) = octetStr THEN [ok |-> TRUE, flag |-> "octet"]
    ELSE [ok |-> FALSE, flag |-> "none"]

\* a request datagram: opcode, a one-letter filename, the mode, each string
\* with its terminating zero
Request(from, op, mode) ==
    [from |-> from, size |-> 2 + 2 + Len(mode) + 1, op |-> op, mode |-> mode,
     err |-> FALSE]

\* a request cut after the filename
ShortRequest == [from |-> ClientA, size |-> 4, op |-> RRQ, mode |-> <<>>, err |-> FALSE]

\* what ReadContinuously hands over when reading failed
ReadErrorRequest == [from |-> NoAddr, size |-> 0, op |-> 0, mode |-> <<>>, err |-> TRUE]

ServeRequests ==
    {Request(ClientA, RRQ, m) : m \in Modes}
    \cup {Request(ClientA, WRQ, octetStr), Request(ClientA, ACK, octetStr),
          ShortRequest, ReadErrorRequest}

\* one datagram of each kind Serve and Start tell apart: a read request, a
\* write request, a datagram that is no request, a failed read
RequestKinds ==
    {Request(ClientA, RRQ, octetStr), Request(ClientA, WRQ, octetStr),
     Request(ClientA, ACK, octetStr), ReadErrorRequest}

parseRequestPacket(req) ==
    IF \/ req.size < 2
       \/ req.op \notin {RRQ, WRQ}
       \/ req.size < minRequestPacketSize
       \/ ~modeToEncodingFlag(req.mode).ok
    THEN [ok |-> FALSE, openFlag |-> "none", encodingFlag |-> "none"]
    ELSE [ok |-> TRUE, openFlag |-> IF req.op = RRQ THEN "read" ELSE "write",
          encodingFlag |-> modeToEncodingFlag(req.mode).flag]

\* the Conn values: srv.requestReader is Conn 0, the Conn that the NewConn
\* call of the i-th session creates is Conn i, and NoConn is the nil pointer
requestReaderConn == 0
NoConn == -1

\* one session: the request, the Start goroutine (start), the HandleRequest
\* goroutine (hr), the Handle(lastPacket) goroutine (handle), packetReader
\* (the Conn in ep, the state of its socket in rwc), the file stream and, as
\* history, the packets sent to the client and the Conn each one left from
NewSession(req) ==
    [req |-> req, start |-> "setup", hr |-> "select", handle |-> "none",
     rwc |-> "unbound", ep |-> NoConn, file |-> "none", sent |-> <<>>, via |-> <<>>]

\* a session that sends from the Conn of the Dispatcher
setupPacketReaderShared(s, i) == [s EXCEPT !.rwc = "open", !.ep = requestReaderConn]

\* setupPacketReader, NewConn(":0") succeeding: a new socket on a port of its own
setupPacketReader(s, i) == [s EXCEPT !.rwc = "open", !.ep = i]

\* sendPacket: WriteTo on packetReader.rwc
sendPacketSession(s, pkt) ==
    [s EXCEPT !.sent = Append(@, pkt), !.via = Append(@, s.ep)]

\* close() that stops at the endpoint and leaves the response writer open
closeEndpointOnly(s) == [s EXCEPT !.rwc = "closed"]

\* HandlerObject.close
closeSession(s) ==
    [s EXCEPT !.rwc = "closed", !.file = IF s.file = "none" THEN "none" ELSE "closed"]

sendErrorAndCloseSession(s, epkt) ==
    closeSession(IF s.rwc = "open" THEN sendPacketSession(s, epkt) ELSE s)

\* a nil packetReader was dereferenced: the process is gone
Crashed == \E i \in DOMAIN sessions : sessions[i].start = "panic"

InitServe ==
    /\ SessionIdle
    /\ PacketIdle
    /\ ConnIdle
    /\ srvPc = "setup"
    /\ ctxSrvDone = FALSE
    /\ numActiveConns = 0
    /\ sessions = <<>>
    /\ cancelType = "none"
    /\ requestReader = "unbound"

\* Serve, up to its loop: srv.setup() binds the well-known endpoint
ServeSetup ==
    /\ srvPc = "setup"
    /\ \E ok \in BOOLEAN :
        /\ srvPc' = IF ok THEN "serving" ELSE "returned"
        /\ requestReader' = IF ok THEN "open" ELSE "unbound"
    /\ UNCHANGED <<ctxSrvDone, numActiveConns, sessions, cancelType, sessionVars,
                   packetVars, connVars>>

\* the request case of Serve when only RRQ and WRQ datagrams are counted
ServeCountsRequestsOnly(req) ==
    /\ srvPc = "serving"
    /\ ~Crashed
    /\ Len(sessions) < MaxSessions
    /\ numActiveConns' = IF req.op \in {RRQ, WRQ} THEN numActiveConns + 1
                          ELSE numActiveConns
    /\ sessions' = Append(sessions, NewSession(req))
    /\ UNCHANGED <<srvPc, ctxSrvDone, cancelType, requestReader, sessionVars, packetVars, connVars>>

\* case request := <-requests
ServeRequest(req) ==
    /\ srvPc = "serving"
    /\ ~Crashed
    /\ Len(sessions) < MaxSessions
    /\ numActiveConns' = numActiveConns + 1
    /\ sessions' = Append(sessions, NewSession(req))
    /\ UNCHANGED <<srvPc, ctxSrvDone, cancelType, requestReader, sessionVars, packetVars, connVars>>

\* case err := <-connDone: the rendezvous with a HandleRequest that reports
ServeConnDone(i) ==
    /\ srvPc = "serving"
    /\ ~Crashed
    /\ sessions[i].hr = "report"
    /\ numActiveConns' = numActiveConns - 1
    /\ sessions' = [sessions EXCEPT ![i].hr = "exit"]
    /\ UNCHANGED <<srvPc, ctxSrvDone, cancelType, requestReader, sessionVars, packetVars, connVars>>

\* the values a caller puts on cancelChan; "other" is any CancelType whose
\* CloseType is none of the three
CloseTypes == {"ShutdownGracefully", "ShutdownWithTimeout", "ShutdownImmediately", "other"}

\* Server.shutdown and Server.close: both return nil and change nothing
shutdown(srv) == srv
close(srv) == srv

\* Server.cancel: what it does to the sessions and the endpoints
cancel(ct, srv) ==
    IF ct \in {"ShutdownGracefully", "ShutdownWithTimeout"} THEN shutdown(srv)
    ELSE IF ct = "ShutdownImmediately" THEN close(srv)
    ELSE srv

\* case cancelType := <-cancelChan: cancelServer(), done <- srv.cancel(), return
ServeCancel(ct) ==
    /\ srvPc = "serving"
    /\ ~Crashed
    /\ ctxSrvDone' = TRUE
    /\ cancelType' = ct
    /\ LET after == cancel(ct, [sessions |-> sessions, requestReader |-> requestReader])
       IN /\ sessions' = after.sessions
          /\ requestReader' = after.requestReader
    /\ srvPc' = "returned"
    /\ UNCHANGED <<numActiveConns, sessionVars, packetVars, connVars>>

\* ReadContinuously, case <-ctx.Done(): c.rwc.Close()
ReadContinuouslyCancelled ==
    /\ ~Crashed
    /\ ctxSrvDone
    /\ requestReader = "open"
    /\ requestReader' = "closed"
    /\ UNCHANGED <<srvPc, ctxSrvDone, numActiveConns, sessions, cancelType, sessionVars,
                   packetVars, connVars>>

\* the file of the write requests has been created by a session
Created ==
    \E j \in DOMAIN sessions : sessions[j].req.op = WRQ /\ sessions[j].file # "none"

\* os.OpenFile with O_CREATE but without O_EXCL: an existing file is opened
ServeOpenResultsNoExcl(openFlag) ==
    IF openFlag = "read" THEN {"nil", "notexist", "permission", "other"}
    ELSE {"nil", "exist", "permission", "other"}

\* os.OpenFile.  Nothing is known of the files the read requests name.  The
\* write requests all name one file, which may be there from the start;
\* O_CREATE|O_EXCL creates it or fails in one step, so once a session has
\* opened it no other open for writing succeeds.
ServeOpenResults(openFlag) ==
    IF openFlag = "read" THEN {"nil", "notexist", "permission", "other"}
    ELSE IF Created THEN {"exist", "permission", "other"}
    ELSE {"nil", "exist", "permission", "other"}

\* Start, up to the receive loop (see StartSetup), for any request
SessionSetup(i) ==
    /\ ~Crashed
    /\ sessions[i].start = "setup"
    /\ \E bindOk \in BOOLEAN :
        LET s == sessions[i]
            bound == setupPacketReader(s, i)
            req == parseRequestPacket(s.req)
        IN IF ~bindOk
           THEN sessions' = [sessions EXCEPT ![i].start = "panic"]
           ELSE IF ~req.ok
           THEN sessions' = [sessions EXCEPT ![i] =
                    [sendErrorAndCloseSession(bound,
                        errNotDef("error occurred while reading opcode in Request packet"))
                     EXCEPT !.start = "send"]]
           ELSE \E openErr \in ServeOpenResults(req.openFlag) :
                IF openErr = "nil"
                THEN sessions' = [sessions EXCEPT ![i] =
                         [bound EXCEPT !.file = "open", !.start = "loop",
                                       !.handle = "spawned"]]
                ELSE sessions' = [sessions EXCEPT ![i] =
                         [sendErrorAndCloseSession(bound, ftpOpenFileError(openErr))
                          EXCEPT !.start = "send"]]
    /\ UNCHANGED <<srvPc, ctxSrvDone, numActiveConns, cancelType, requestReader,
                   sessionVars, packetVars, connVars>>

\* what WriteResponse makes of the request: the first 512 bytes of the file
\* (the files here hold a block or more) as DATA block 1, or ACK block 0; a
\* read of the closed file fails
FirstResponse(s) ==
    IF parseRequestPacket(s.req).openFlag = "write" THEN createAckPacket(0)
    ELSE IF s.file = "open" THEN createDataPacket(1, 0, BlockSize)
    ELSE internalErrorPacket

\* go handlerObject.Handle(handlerObject.lastPacket): the response to the
\* request is sent from packetReader; a failed send ends in
\* sendDefaultErrorAndClose
SessionHandle(i) ==
    /\ ~Crashed
    /\ sessions[i].handle = "spawned"
    /\ \E netOk \in BOOLEAN :
        LET s == [sessions[i] EXCEPT !.handle = "done"]
        IN sessions' = [sessions EXCEPT ![i] =
               IF s.rwc = "open" /\ netOk
               THEN sendPacketSession(s, FirstResponse(s))
               ELSE closeSession(s)]
    /\ UNCHANGED <<srvPc, ctxSrvDone, numActiveConns, cancelType, requestReader,
                   sessionVars, packetVars, connVars>>

\* a Handle whose send failed: sendDefaultErrorAndClose, while Start stays in
\* its loop
SessionSendFailure(i) ==
    /\ ~Crashed
    /\ sessions[i].start = "loop"
    /\ sessions[i].rwc = "open"
    /\ sessions' = [sessions EXCEPT ![i] = closeSession(@)]
    /\ UNCHANGED <<srvPc, ctxSrvDone, numActiveConns, cancelType, requestReader,
                   sessionVars, packetVars, connVars>>

\* case <-ctxTimeout.Done() of Start
SessionTimeout(i) ==
    /\ ~Crashed
    /\ sessions[i].start = "loop"
    /\ sessions' = [sessions EXCEPT ![i] =
           [sendErrorAndCloseSession(@, errNotDef("connection timeout"))
            EXCEPT !.start = "send"]]
    /\ UNCHANGED <<srvPc, ctxSrvDone, numActiveConns, cancelType, requestReader,
                   sessionVars, packetVars, connVars>>

\* case <-ctx.Done() of Start
SessionShutdown(i) ==
    /\ ~Crashed
    /\ sessions[i].start = "loop"
    /\ ctxSrvDone
    /\ sessions' = [sessions EXCEPT ![i] =
           [sendErrorAndCloseSession(@, errNotDef("server is shutting down"))
            EXCEPT !.start = "send"]]
    /\ UNCHANGED <<srvPc, ctxSrvDone, numActiveConns, cancelType, requestReader,
                   sessionVars, packetVars, connVars>>

\* HandleRequest, case err := <-handlerFinished: the rendezvous with Start
HandleRequestFinished(i) ==
    /\ ~Crashed
    /\ sessions[i].hr = "select"
    /\ sessions[i].start = "send"
    /\ sessions' = [sessions EXCEPT ![i].hr = "report", ![i].start = "end"]
    /\ UNCHANGED <<srvPc, ctxSrvDone, numActiveConns, cancelType, requestReader,
                   sessionVars, packetVars, connVars>>

\* HandleRequest, case <-ctx.Done()
HandleRequestCancelled(i) ==
    /\ ~Crashed
    /\ sessions[i].hr = "select"
    /\ ctxSrvDone
    /\ sessions' = [sessions EXCEPT ![i].hr = "report"]
    /\ UNCHANGED <<srvPc, ctxSrvDone, numActiveConns, cancelType, requestReader,
                   sessionVars, packetVars, connVars>>

\* the steps of the sessions and of ReadContinuously
SessionSteps ==
    \/ ReadContinuouslyCancelled
    \/ \E i \in DOMAIN sessions : SessionSetup(i)
    \/ \E i \in DOMAIN sessions : SessionSendFailure(i)
    \/ \E i \in DOMAIN sessions : SessionTimeout(i)
    \/ \E i \in DOMAIN sessions : SessionShutdown(i)
    \/ \E i \in DOMAIN sessions : HandleRequestFinished(i)
    \/ \E i \in DOMAIN sessions : HandleRequestCancelled(i)

\* the Dispatcher given every form of request datagram
NextRequests ==
    \/ ServeSetup
    \/ \E req \in ServeRequests : ServeRequest(req)
    \/ \E i \in DOMAIN sessions : ServeConnDone(i)
    \/ \E ct \in CloseTypes : ServeCancel(ct)
    \/ SessionSteps

SpecRequests == InitServe /\ [][NextRequests]_vars

\* the Dispatcher given read and write requests, with the reply of every
\* session to its request
AcceptedRequests == {Request(ClientA, RRQ, octetStr), Request(ClientA, WRQ, octetStr)}

NextEndpoints ==
    \/ ServeSetup
    \/ \E req \in AcceptedRequests : ServeRequest(req)
    \/ \E i \in DOMAIN sessions : ServeConnDone(i)
    \/ ServeCancel("ShutdownGracefully")
    \/ \E i \in DOMAIN sessions : SessionHandle(i)
    \/ SessionSteps

SpecEndpoints == InitServe /\ [][NextEndpoints]_vars

\* the Dispatcher given one datagram of each kind
NextServe ==
    \/ ServeSetup
    \/ \E req \in RequestKinds : ServeRequest(req)
    \/ \E i \in DOMAIN sessions : ServeConnDone(i)
    \/ \E ct \in CloseTypes : ServeCancel(ct)
    \/ ReadContinuouslyCancelled
    \/ \E i \in DOMAIN sessions : SessionSetup(i)
    \/ \E i \in DOMAIN sessions : SessionSendFailure(i)
    \/ \E i \in DOMAIN sessions : SessionTimeout(i)
    \/ \E i \in DOMAIN sessions : SessionShutdown(i)
    \/ \E i \in DOMAIN sessions : HandleRequestFinished(i)
    \/ \E i \in DOMAIN sessions : HandleRequestCancelled(i)

SpecServe == InitServe /\ [][NextServe]_vars

\* What the scheduler and the clock guarantee to session i: a goroutine that
\* can take its step does so, a rendezvous both sides are ready for takes
\* place, and a receive on an open endpoint on which no datagram arrives ends
\* with the 5 s timer running out.  A receive on a closed endpoint returns at
\* once with an error and the next pass of the loop arms a new timer, so
\* nothing makes that timer run out.
SessionProgress(i) ==
    /\ i \in DOMAIN sessions
    /\ \/ SessionSetup(i)
       \/ SessionTimeout(i) /\ sessions[i].rwc = "open"
       \/ HandleRequestFinished(i)

ServeProgress(i) == i \in DOMAIN sessions /\ ServeConnDone(i)

FairServe ==
    /\ SpecServe
    /\ \A i \in 1..MaxSessions : WF_vars(SessionProgress(i)) /\ WF_vars(ServeProgress(i))

\* ---------------------------------------------------- the well-known Conn
\* Conn.ReadContinuously and the goroutines of Conn.Read on the Conn of the
\* Dispatcher, from the moment Serve has called ReadContinuously.  A reader
\* is [pc, got, data, err]: got is the datagram its ReadFrom returned, data
\* what it copied out of Conn.buffer, err the error of its Request.
NewReader == [pc |-> "ReadFrom", got |-> 0, data |-> 0, err |-> "nil"]

InitConn ==
    /\ SessionIdle
    /\ PacketIdle
    /\ srvPc = "serving"
    /\ ctxSrvDone = FALSE
    /\ numActiveConns = 0
    /\ sessions = <<>>
    /\ cancelType = "none"
    /\ requestReader = "open"
    /\ socket = <<>>
    /\ arrived = 0
    /\ buffer = 0
    /\ readers = <<>>
    /\ rcPc = "select"
    /\ rcRequest = NoRequest
    /\ delivered = <<>>

\* a datagram arrives on the well-known endpoint
Arrive ==
    /\ requestReader = "open"
    /\ arrived < MaxDatagrams
    /\ arrived' = arrived + 1
    /\ socket' = Append(socket, arrived + 1)
    /\ UNCHANGED <<buffer, readers, rcPc, rcRequest, delivered, sessionVars, serveVars,
                   packetVars>>

\* ReadContinuously enters its select: the channel operand c.Read(ctx) is
\* evaluated, which starts one more reader with a channel of its own
ConnRead ==
    /\ rcPc = "select"
    /\ Len(readers) < MaxReaders
    /\ readers' = Append(readers, NewReader)
    /\ rcPc' = "poll"
    /\ UNCHANGED <<socket, arrived, buffer, rcRequest, delivered, sessionVars, serveVars,
                   packetVars>>

\* c.rwc.ReadFrom(c.buffer) returns: with the next datagram, put into the
\* buffer all readers share, or with an error once the endpoint is closed
ReaderReadFrom(r) ==
    /\ readers[r].pc = "ReadFrom"
    /\ IF requestReader = "closed"
       THEN /\ readers' = [readers EXCEPT ![r].pc = "copy", ![r].err = "err"]
            /\ UNCHANGED <<socket, buffer>>
       ELSE /\ socket # <<>>
            /\ readers' = [readers EXCEPT ![r].pc = "copy", ![r].got = Head(socket)]
            /\ socket' = Tail(socket)
            /\ buffer' = Head(socket)
    /\ UNCHANGED <<arrived, rcPc, rcRequest, delivered, sessionVars, serveVars, packetVars>>

\* copy(data, c.buffer[:n]), and after a failed read the choice of the error
ReaderCopy(r) ==
    /\ readers[r].pc = "copy"
    /\ readers' = [readers EXCEPT
           ![r].pc = "send",
           ![r].data = IF readers[r].err = "nil" THEN buffer ELSE 0,
           ![r].err = IF readers[r].err = "nil" THEN "nil"
                      ELSE IF ctxSrvDone THEN "Canceled" ELSE "err"]
    /\ UNCHANGED <<socket, arrived, buffer, rcPc, rcRequest, delivered, sessionVars,
                   serveVars, packetVars>>

\* the reader ReadContinuously is receiving from: the one it started last
CurrentReader == Len(readers)

\* the select of ReadContinuously, case request := <-c.Read(ctx): the reader
\* is sending already.  After an error the reader goes on to a second send.
RcReceive ==
    /\ rcPc = "poll"
    /\ readers[CurrentReader].pc = "send"
    /\ readers' = [readers EXCEPT ![CurrentReader].pc =
                       IF readers[CurrentReader].err = "nil" THEN "done" ELSE "send2"]
    /\ IF readers[CurrentReader].err = "Canceled"
       THEN /\ rcPc' = "returned"
            /\ UNCHANGED rcRequest
       ELSE /\ rcPc' = "out"
            /\ rcRequest' = [data |-> readers[CurrentReader].data,
                             err |-> readers[CurrentReader].err]
    /\ UNCHANGED <<socket, arrived, buffer, delivered, sessionVars, serveVars, packetVars>>

\* the select of ReadContinuously, case <-ctx.Done(): c.rwc.Close(); closing
\* the closed endpoint fails, and the error goes to the out channel
RcClose ==
    /\ rcPc = "poll"
    /\ ctxSrvDone
    /\ IF requestReader = "open"
       THEN /\ requestReader' = "closed"
            /\ rcPc' = "select"
            /\ UNCHANGED rcRequest
       ELSE /\ rcPc' = "out"
            /\ rcRequest' = [data |-> 0, err |-> "err"]
            /\ UNCHANGED requestReader
    /\ UNCHANGED <<srvPc, ctxSrvDone, numActiveConns, sessions, cancelType, socket,
                   arrived, buffer, readers, delivered, sessionVars, packetVars>>

\* the select of ReadContinuously, default: nothing is ready, the channel of
\* the current reader is dropped and the loop starts over
RcDefault ==
    /\ rcPc = "poll"
    /\ readers[CurrentReader].pc # "send"
    /\ ~ctxSrvDone
    /\ rcPc' = "select"
    /\ UNCHANGED <<socket, arrived, buffer, readers, rcRequest, delivered, sessionVars,
                   serveVars, packetVars>>

\* out <- request, received by Serve in its case request := <-requests
RcOut ==
    /\ rcPc = "out"
    /\ srvPc = "serving"
    /\ delivered' = Append(delivered, rcRequest)
    /\ rcPc' = "select"
    /\ UNCHANGED <<socket, arrived, buffer, readers, rcRequest, sessionVars, serveVars,
                   packetVars>>

NextConn ==
    \/ Arrive
    \/ ConnRead
    \/ \E r \in DOMAIN readers : ReaderReadFrom(r)
    \/ \E r \in DOMAIN readers : ReaderCopy(r)
    \/ RcReceive
    \/ RcClose
    \/ RcDefault
    \/ RcOut
    \/ ServeCancel("ShutdownImmediately")

SpecConn == InitConn /\ [][NextConn]_vars

\* ------------------------------------------------------------------ claims
\* Task t handles the t-th packet of the session: task 1 the request, task
\* t > 1 the (t-1)-th datagram read from the endpoint.
Max(S) == CHOOSE x \in S : \A y \in S : y <= x

IsDataSent(e) == e.pkt.op = DATA
IsAckSent(e) == e.pkt.op = ACK

\* index in sent of the last DATA among the first k packets sent (0: none)
LastDataBefore(k) ==
    LET S == {i \in 1..k : IsDataSent(sent[i])} IN IF S = {} THEN 0 ELSE Max(S)

\* index in sent of the last ACK among the first k packets sent (0: none)
LastAckBefore(k) ==
    LET S == {i \in 1..k : IsAckSent(sent[i])} IN IF S = {} THEN 0 ELSE Max(S)

FromClient(t) == t > 1 /\ ~tasks[t].pkt.err /\ tasks[t].pkt.from = remoteAddr
AckFromClient(t) ==
    FromClient(t) /\ tasks[t].pkt.op = ACK /\ tasks[t].pkt.size >= HeaderSize
DataFromClient(t) ==
    FromClient(t) /\ tasks[t].pkt.op = DATA /\ tasks[t].pkt.size >= HeaderSize
Handled(t) == tasks[t].pc # "spawned"
NoStreamCall(t) == tasks[t].n = -1
SentFor(t) == {i \in DOMAIN sent : sent[i].id = t}

\* The client is lock-step: no datagram arrived while a Handle was running, so
\* the Handle goroutines did not overlap.
NoneEarly == \A t \in DOMAIN tasks : ~tasks[t].early

\* C2, C4, C6, C8, C9 and C10 are stated for lock-step clients, so that what
\* they say does not depend on C1.

\* C1: within one session the handling of packet k (WriteResponse and the send
\* of its response) completes before the handling of packet k+1 begins, and
\* the responses leave in the order their packets arrived.
C1_HandlingIsSerial ==
    /\ \A t, u \in DOMAIN tasks : (t < u /\ Handled(u)) => tasks[t].pc = "done"
    /\ \A i, j \in DOMAIN sent :
          (i < j /\ sent[i].id > 0 /\ sent[j].id > 0) => sent[i].id <= sent[j].id

\* C2: an RRQ session that has sent DATA(n) and waits for ACK(n) answers a
\* duplicate ACK(n-1) with no packet and reads nothing from the file for it.
DuplicateAck(t) ==
    /\ openMode = "read"
    /\ AckFromClient(t)
    /\ \E s \in 2..(t - 1) : tasks[s].pkt = tasks[t].pkt
    /\ LastDataBefore(tasks[t].seen) > 0
    /\ sent[LastDataBefore(tasks[t].seen)].pkt.block
          = (tasks[t].pkt.block + 1) % UInt16Mod

C2_DuplicateAckIgnored ==
    NoneEarly =>
        \A t \in DOMAIN tasks :
            DuplicateAck(t) => NoStreamCall(t) /\ SentFor(t) = {}

\* C3: an RRQ session on a file of N bytes whose client acknowledges each
\* block it receives sends exactly k = N div 512 + 1 DATA packets, numbered
\* 1..k, the i-th carrying the i-th 512 bytes of the file (the last one fewer).
AcksEachBlockOnce ==
    \A t \in 2..Len(tasks) :
        /\ AckFromClient(t)
        /\ \E i \in 1..tasks[t].seen :
              IsDataSent(sent[i]) /\ sent[i].pkt.block = tasks[t].pkt.block
        /\ \A s \in 2..(t - 1) : tasks[s].pkt # tasks[t].pkt

ExpectedBlocks == diskLen \div BlockSize + 1

C3_ExactlyKDataPackets ==
    (openMode = "read" /\ AcksEachBlockOnce) =>
        LET D == SelectSeq(sent, IsDataSent)
        IN /\ Len(D) <= ExpectedBlocks
           /\ \A i \in DOMAIN D :
                 /\ D[i].pkt.block = i
                 /\ D[i].pkt.len = Min(BlockSize, diskLen - (i - 1) * BlockSize)

\* C4: in an RRQ session the ACK of the final DATA (payload < 512 bytes) is
\* answered with no further DATA, and the session is then CLOSED: file stream
\* and endpoint released.
FinalAck(t) ==
    /\ openMode = "read"
    /\ AckFromClient(t)
    /\ \E i \in 1..tasks[t].seen :
          /\ IsDataSent(sent[i])
          /\ sent[i].pkt.block = tasks[t].pkt.block
          /\ sent[i].pkt.len < BlockSize

C4_FinalAckCloses ==
    NoneEarly =>
        \A t \in DOMAIN tasks :
            FinalAck(t) =>
                /\ \A i \in SentFor(t) : ~IsDataSent(sent[i])
                /\ tasks[t].pc = "done" => (conn = "closed" /\ file = "closed")

\* C5: a WRQ session sends ACK(0) for the request and exactly one ACK per DATA
\* packet received, and when it has ended the bytes in the file are the sum of
\* the payload lengths of the DATA packets received.
RECURSIVE PayloadSum(_)
PayloadSum(S) ==
    IF S = {} THEN 0
    ELSE LET t == CHOOSE x \in S : TRUE
         IN readData(tasks[t].pkt) + PayloadSum(S \ {t})

DataReceived ==
    {t \in 2..Len(tasks) :
        ~tasks[t].pkt.err /\ tasks[t].pkt.op = DATA
                          /\ tasks[t].pkt.size >= HeaderSize}

OnlyDataReceived == DataReceived = 2..Len(tasks)
AllAnswered == \A t \in DOMAIN tasks : SentFor(t) # {}

C5_OneAckPerDataAllBytesWritten ==
    (/\ openMode = "write" /\ pc = "report" /\ netUp
     /\ Running = {} /\ NoneEarly /\ AllAnswered /\ OnlyDataReceived) =>
        /\ Len(SelectSeq(sent, IsAckSent)) = 1 + Cardinality(DataReceived)
        /\ diskLen = PayloadSum(DataReceived)

\* C6: a WRQ session that has acknowledged the final DATA (payload < 512 bytes)
\* answers a retransmission of that DATA with the same ACK and writes nothing
\* to the file for it.
RetransmittedFinalData(u) ==
    /\ openMode = "write"
    /\ DataFromClient(u)
    /\ readData(tasks[u].pkt) < BlockSize
    /\ \E t \in 2..(u - 1) :
          /\ tasks[t].pkt = tasks[u].pkt
          /\ \E i \in 1..tasks[u].seen :
                /\ sent[i].id = t
                /\ sent[i].pkt = createAckPacket(tasks[u].pkt.block)

C6_DallyingDoesNotRewrite ==
    NoneEarly =>
        \A u \in DOMAIN tasks :
            (RetransmittedFinalData(u) /\ Handled(u)) =>
                /\ NoStreamCall(u)
                /\ tasks[u].resp = createAckPacket(tasks[u].pkt.block)

\* C7: a receive timeout makes the session re-send its last packet and go on
\* waiting; the session fails only after 5 consecutive timeouts.
C7_FailsOnlyAfterRetries ==
    (timeouts > 0 /\ timeouts < 5 /\ ~ctxCancelled) =>
        (pc = "select" /\ conn = "open")

\* C8: a packet whose block number is neither the expected one nor the one
\* before it is answered with ERROR(illegal TFTP operation), causes no read or
\* write of the file, and ends the session.
OutOfSequence(t) ==
    \/ /\ openMode = "read"
       /\ AckFromClient(t)
       /\ LastDataBefore(tasks[t].seen) > 0
       /\ LET n == sent[LastDataBefore(tasks[t].seen)].pkt.block
          IN tasks[t].pkt.block \notin {n, (n + UInt16Mod - 1) % UInt16Mod}
    \/ /\ openMode = "write"
       /\ DataFromClient(t)
       /\ LastAckBefore(tasks[t].seen) > 0
       /\ LET n == sent[LastAckBefore(tasks[t].seen)].pkt.block
          IN tasks[t].pkt.block \notin {n, (n + 1) % UInt16Mod}

C8_OutOfSequenceRejected ==
    NoneEarly =>
        \A t \in DOMAIN tasks :
            (OutOfSequence(t) /\ Handled(t)) =>
                /\ NoStreamCall(t)
                /\ tasks[t].resp.op = ERROR
                /\ tasks[t].resp.msg = errOperation.msg

\* C9: a packet from an address other than the session's peer is answered with
\* ERROR(unknown transfer ID) sent to that address; nothing is sent to the peer,
\* no file operation is made for it, and lastPacket is left as it was.
FromStranger(t) ==
    t > 1 /\ ~tasks[t].pkt.err /\ tasks[t].pkt.from # remoteAddr

C9_StrangerDoesNotDisturb ==
    NoneEarly =>
        \A t \in DOMAIN tasks :
            (FromStranger(t) /\ Handled(t)) =>
                /\ NoStreamCall(t)
                /\ \A i \in SentFor(t) :
                      /\ sent[i].to = tasks[t].pkt.from
                      /\ sent[i].pkt.op = ERROR
                      /\ sent[i].pkt.msg = errTID.msg
                /\ (t = Len(tasks) => lastPacket # tasks[t].pkt)

\* C10: lock-step: an RRQ session sends a DATA packet only when the DATA sent
\* before it has been acknowledged by the peer, so that at most one DATA is
\* outstanding at any time.
C10_LockStep ==
    (openMode = "read" /\ NoneEarly) =>
        \A i \in DOMAIN sent :
            (IsDataSent(sent[i]) /\ LastDataBefore(i - 1) > 0) =>
                LET j == LastDataBefore(i - 1)
                IN \E t \in DOMAIN tasks :
                      /\ AckFromClient(t)
                      /\ tasks[t].pkt.block = sent[j].pkt.block
                      /\ tasks[t].seen >= j
                      /\ tasks[t].seen < i

\* C11: block numbering: the first DATA of an RRQ session is block 1, the
\* first ACK of a WRQ session is block 0, the DATA that answers ACK(n) is
\* numbered n + 1 modulo 2^16 (DATA(0) answers ACK(65535), no error), and the
\* ACK that answers DATA(n) is numbered n, so that the numbers of successive
\* new blocks are consecutive.
HasOpCode(p, op) == p.size >= 2 /\ p.op = op
HasBlockNumber(p, op) == p.size >= HeaderSize /\ p.op = op

AcknowledgedData(t) ==
    /\ openMode = "write"
    /\ DataFromClient(t)
    /\ Handled(t)
    /\ tasks[t].resp = createAckPacket(tasks[t].pkt.block)

C12_AcknowledgedPayloadIsWritten ==
    NoneEarly =>
        \A t \in DOMAIN tasks :
            AcknowledgedData(t) => tasks[t].n = readData(tasks[t].pkt)

\* C13: when the Dispatcher has cancelled a running Session, the Session has
\* sent exactly one final ERROR, with code 0 and the message "server is
\* shutting down" (no timeout error in its place), has closed its file stream
\* and released its endpoint.  The message is accepted with or without the
\* "undefined: " that tftpError.fmt puts in front of it.
SentByStart == {i \in DOMAIN sent : sent[i].id = 0}

ShutdownMessages == {"server is shutting down", errNotDef("server is shutting down").msg}

C13_CancelSendsShutdownError ==
    (ctxCancelled /\ pc = "report" /\ netUp) =>
        /\ Cardinality(SentByStart) = 1
        /\ \A i \in SentByStart :
              /\ sent[i].to = remoteAddr
              /\ sent[i].pkt.op = ERROR
              /\ sent[i].pkt.code = 0
              /\ sent[i].pkt.msg \in ShutdownMessages
        /\ conn = "closed"
        /\ file = "closed"

\* C14: whenever a Session has reached CLOSED, that is when its completion
\* has been reported to the Dispatcher, its endpoint and its file stream have
\* been released, whichever way it ended: setup failure, timeout, send
\* failure or cancellation.
Reported(i) == sessions[i].hr = "exit"

C14_ClosedSessionsReleased ==
    \A i \in DOMAIN sessions :
        Reported(i) => (sessions[i].rwc = "closed" /\ sessions[i].file # "open")

C14_Witness ==
    \E i \in DOMAIN sessions :
        /\ Reported(i)
        /\ sessions[i].rwc = "closed"
        /\ sessions[i].file = "closed"

\* C15: when a Session has sent an ERROR packet to its client, it is CLOSED
\* and processes no further packet.
SentErrorToClient(t) ==
    \E i \in SentFor(t) : sent[i].pkt.op = ERROR /\ sent[i].to = remoteAddr

C15_ErrorClosesSession ==
    NoneEarly =>
        \A t \in DOMAIN tasks :
            SentErrorToClient(t) =>
                /\ conn = "closed"
                /\ \A u \in DOMAIN tasks : u > t => ~Handled(u)

\* C16: an RRQ that names a file which does not exist is answered with
\* exactly one ERROR, code 1 and message "file not found", and with no DATA;
\* the session has then released its endpoint and reports its completion.
RrqOfMissingFile ==
    /\ lastPacket.op = RRQ
    /\ readFilename(lastPacket)
    /\ ~lastPacket.err
    /\ ~diskExists
    /\ pc \notin {"off", "setup", "panic"}

C16_MissingFileAnswered ==
    RrqOfMissingFile =>
        /\ pc = "report"
        /\ doneErr = "setupErr"
        /\ conn = "closed"
        /\ file = "none"
        /\ tasks = <<>>
        /\ sent = IF netUp
                  THEN <<[id |-> 0, to |-> ClientA,
                          pkt |-> [op |-> ERROR, code |-> 1, msg |-> "file not found"]]>>
                  ELSE <<>>

C16_Witness == RrqOfMissingFile /\ netUp /\ Len(sent) = 1 /\ conn = "closed"

\* C17: every ERROR packet the server sends carries the RFC 1350 code of its
\* kind: undefined 0, file not found 1, access violation 2, disk full 3,
\* illegal operation 4, unknown transfer ID 5, file exists 6, no such user 7.
Rfc1350Code(msg) ==
    CASE msg = errNoFile.msg -> 1
      [] msg = errAccess.msg -> 2
      [] msg = errMemory.msg -> 3
      [] msg = errOperation.msg -> 4
      [] msg = errTID.msg -> 5
      [] msg = errFileExists.msg -> 6
      [] msg = errNoUser.msg -> 7
      [] OTHER -> 0

C17_ErrorCodesAreRfc1350 ==
    \A i \in DOMAIN sent :
        sent[i].pkt.op = ERROR => sent[i].pkt.code = Rfc1350Code(sent[i].pkt.msg)

\* C18: a datagram on the well-known endpoint whose opcode is neither RRQ nor
\* WRQ is answered with ERROR(illegal TFTP operation) and creates no Session:
\* no ephemeral endpoint is bound, no file is opened and the active-session
\* counter is not changed.
NotARequest(i) ==
    /\ ~sessions[i].req.err
    /\ sessions[i].req.size >= 2
    /\ sessions[i].req.op \notin {RRQ, WRQ}

C18_NonRequestCreatesNoSession ==
    /\ \A i \in DOMAIN sessions :
          NotARequest(i) =>
              /\ sessions[i].rwc = "unbound"
              /\ sessions[i].file = "none"
              /\ sessions[i].start # "setup" =>
                    /\ Len(sessions[i].sent) = 1
                    /\ sessions[i].sent[1].msg = errOperation.msg
    /\ (\A i \in DOMAIN sessions : NotARequest(i)) => numActiveConns = 0

\* C19: the mode of an RRQ/WRQ is compared without regard to case; exactly
\* netascii and octet are accepted, and a request with another mode is
\* rejected with ERROR(illegal TFTP operation) and no file is opened or
\* created for it.
SameIgnoringCase(str, lower) ==
    /\ Len(str) = Len(lower)
    /\ \A k \in DOMAIN str :
          str[k] = lower[k] \/ (str[k] \in 65..90 /\ str[k] + 32 = lower[k])

ModeAccepted(m) == SameIgnoringCase(m, netasciiStr) \/ SameIgnoringCase(m, octetStr)

WellFormedRequest(i) ==
    /\ ~sessions[i].req.err
    /\ sessions[i].req.op \in {RRQ, WRQ}
    /\ sessions[i].req.size >= minRequestPacketSize

BadRequestError == errNotDef("error occurred while reading opcode in Request packet")

C19_ModeChecked ==
    \A i \in DOMAIN sessions :
        (WellFormedRequest(i) /\ sessions[i].start \notin {"setup", "panic"}) =>
            IF ModeAccepted(sessions[i].req.mode)
            THEN \A k \in DOMAIN sessions[i].sent :
                    sessions[i].sent[k].msg \notin {errOperation.msg, BadRequestError.msg}
            ELSE /\ sessions[i].file = "none"
                 /\ Len(sessions[i].sent) = 1
                 /\ sessions[i].sent[1].msg = errOperation.msg

\* C20: the active-session counter equals the number of live Sessions, those
\* created and not yet reported complete: it goes up by one when a Session is
\* created, down by one when that Session reports, and is never negative.
LiveSessions == {i \in DOMAIN sessions : ~Reported(i)}

C20_CounterIsLiveSessions ==
    /\ numActiveConns = Cardinality(LiveSessions)
    /\ numActiveConns >= 0

C20_Witness ==
    /\ Len(sessions) = 2
    /\ Cardinality(LiveSessions) = 1
    /\ numActiveConns = 1

\* C21: after a ShutdownGracefully cancellation Serve reports on its done
\* channel only when the active-session count has reached zero, that is when
\* every session it started has reported completion.
AllSessionsReported == \A i \in DOMAIN sessions : sessions[i].hr = "exit"

C21_GracefulWaitsForSessions ==
    (srvPc = "returned" /\ cancelType = "ShutdownGracefully")
        => (numActiveConns = 0 /\ AllSessionsReported)

\* C22: when shutdown is reported after a ShutdownImmediately cancellation,
\* the well-known endpoint and the ephemeral endpoint of every session are
\* closed.
C22_ImmediateClosesAllEndpoints ==
    (srvPc = "returned" /\ cancelType = "ShutdownImmediately")
        => /\ requestReader = "closed"
           /\ \A i \in DOMAIN sessions : sessions[i].rwc # "open"

\* C23: no session failure stops the Dispatcher: while it was not cancelled,
\* after a session ended with an error (a failed bind of its endpoint and a
\* failed open of its file included) Serve is still in its loop and takes the
\* next read request.
SessionFailed(i) == sessions[i].start \in {"send", "end", "panic"}

C23_SessionFailureLeavesDispatcherRunning ==
    (/\ srvPc = "serving"
     /\ Len(sessions) < MaxSessions
     /\ \E i \in DOMAIN sessions : SessionFailed(i))
        => ENABLED ServeRequest(Request(ClientA, RRQ, octetStr))

\* C24: every session of a read or write request has a Conn of its own,
\* which is neither the Conn of another session nor the Dispatcher's; the
\* DATA or ACK it sends for the request is DATA block 1 for a read request
\* and ACK block 0 for a write request and is the first packet it sends; and
\* every packet a session sends leaves from its own Conn.
Bound(i) == sessions[i].rwc # "unbound"

IsFirstReply(i, k) ==
    /\ k = 1
    /\ sessions[i].req.op = RRQ
        => sessions[i].sent[k].op = DATA /\ sessions[i].sent[k].block = 1
    /\ sessions[i].req.op = WRQ
        => sessions[i].sent[k].op = ACK /\ sessions[i].sent[k].block = 0

C25_CodecRoundTrip ==
    /\ out.fn = "parseDataPacket"
        => /\ out.ok
           /\ out.bn = arg.blockNumber
           /\ out.data = arg.data
           /\ out.size = HeaderSize + Len(arg.data)
    /\ out.fn = "readBlockNumber"
        => /\ out.ok
           /\ out.bn = arg.blockNumber
           /\ out.size = HeaderSize

\* the highest block number with a full block has made the round trip
C25_Witness ==
    /\ out.fn = "parseDataPacket"
    /\ arg.blockNumber = UInt16Mod - 1
    /\ Len(arg.data) = BlockSize
    /\ out.data = arg.data

\* C26: in a read session every DATA packet with block number n carries the
\* bytes of the file at offsets 512 * (n - 1) and following, 512 of them or,
\* at the end of the file, the rest, whatever ACKs the client sent.
FileBytesOfBlock(n) ==
    [off |-> BlockSize * (n - 1),
     len |-> IF BlockSize * (n - 1) >= diskLen THEN 0
             ELSE Min(BlockSize, diskLen - BlockSize * (n - 1))]

C26_DataPositionFromBlockNumber ==
    (openMode = "read" /\ NoneEarly) =>
        \A k \in DOMAIN sent :
            IsDataSent(sent[k]) =>
                /\ sent[k].pkt.block >= 1
                /\ sent[k].pkt.len = FileBytesOfBlock(sent[k].pkt.block).len
                /\ sent[k].pkt.len > 0
                    => sent[k].pkt.off = FileBytesOfBlock(sent[k].pkt.block).off

\* C27: in a write session the block number of a received DATA is checked
\* before anything is written: no block is written twice, and what the stream
\* accepted is the payload of the blocks 1..k, each once and in this order.
C27_EachBlockWrittenOnce ==
    (openMode = "write" /\ NoneEarly) =>
        \A i \in DOMAIN written : written[i].block = i

\* C28: for a session whose file was opened the Close of the file stream is
\* called exactly once (not twice, and once when Start has left its loop), a
\* write buffer is flushed by it, and after it no read or write of the
\* stream takes place.
StreamCloses == Cardinality({k \in DOMAIN closes : closes[k] = "ResponseWriter.Close"})

C28_StreamClosedExactlyOnce ==
    /\ [](file # "none" =>
            /\ StreamCloses <= 1
            /\ pc = "report" => StreamCloses = 1
            /\ (file = "closed" /\ ~werr) => wbuffered = 0)
    /\ [][file = "closed" => (rpos' = rpos /\ written' = written)]_vars

\* C29: on every exit path of a session the cleanup is, in this order: one
\* attempt to send an ERROR, the Close of the file stream, the release of the
\* endpoint; the endpoint is never released before the file stream is closed.
StreamClosedBefore(k) == \E j \in 1..(k - 1) : closes[j] = "ResponseWriter.Close"

C29_CleanupOrder ==
    /\ closes # <<>> => closes[1] = "sendPacket"
    /\ \A k \in DOMAIN closes :
        (closes[k] = "rwc.Close" /\ file # "none") => StreamClosedBefore(k)

\* C30: every datagram read from the well-known endpoint is delivered to
\* Serve exactly once and with its own payload: at most one read of the
\* shared buffer is in flight at a time, a reader holds the payload of the
\* datagram it read, no reader that read a datagram is left sending on a
\* channel ReadContinuously has dropped, and no datagram is delivered twice.
ReadsInFlight == {r \in DOMAIN readers : readers[r].pc \in {"ReadFrom", "copy"}}

Abandoned(r) == r # CurrentReader \/ rcPc # "poll"

C30_EveryDatagramDeliveredOnce ==
    /\ Cardinality(ReadsInFlight) <= 1
    /\ \A r \in DOMAIN readers :
        /\ (readers[r].pc \in {"send", "done"} /\ readers[r].got # 0)
               => readers[r].data = readers[r].got
        /\ (readers[r].pc = "send" /\ readers[r].got # 0) => ~Abandoned(r)
    /\ \A i, j \in DOMAIN delivered :
        (i # j /\ delivered[i].data # 0) => delivered[i].data # delivered[j].data

\* C31: every session whose client stays silent terminates: as long as the
\* Dispatcher is running, the session is eventually closed (endpoint and
\* file stream) and its completion has been received by Serve.
SessionOver(i) ==
    /\ i \in DOMAIN sessions
    /\ sessions[i].hr = "exit"
    /\ sessions[i].rwc = "closed"
    /\ sessions[i].file # "open"

C31_SilentClientSessionTerminates ==
    \A i \in 1..MaxSessions :
        (i \in DOMAIN sessions) ~> (SessionOver(i) \/ srvPc # "serving" \/ Crashed)


\* C32: once a failed send in Handle has closed the endpoint the receive
\* loop handles no further packet: no Handle is ever started for the read
\* error of the closed endpoint.
C32_ReceiveLoopEndsAfterFailedSend ==
    \A t \in DOMAIN tasks : ~tasks[t].pkt.err


\* C33: after the Dispatcher is cancelled no task is left blocked on a send
\* nobody will receive: no HandleRequest waits to report to a Serve that has
\* returned, and no Start waits to hand its result to a HandleRequest that
\* has gone on without it.
HandleRequestStuck(i) == sessions[i].hr = "report" /\ srvPc = "returned"

StartStuck(i) == sessions[i].start = "send" /\ sessions[i].hr # "select"

C33_NoTaskBlockedAfterCancel ==
    \A i \in DOMAIN sessions : ~HandleRequestStuck(i) /\ ~StartStuck(i)


\* C34: in a read session a packet that nextBlockNumber rejects consumes no
\* bytes of the file: the Handle of such a packet has read nothing.
C34_RejectedPacketLeavesReadPosition ==
    openMode = "read" =>
        \A t \in DOMAIN tasks :
            (tasks[t].pc # "spawned" /\ ~RrqNextBlockNumber(tasks[t].pkt).ok)
                => tasks[t].n <= 0


\* C35: a transfer that completed ends without an ERROR packet from the
\* session: once the final block (fewer than 512 bytes) is written and
\* acknowledged, or sent and acknowledged, Start sends no ERROR unless the
\* Dispatcher is cancelled.
TransferComplete ==
    \/ /\ openMode = "write"
       /\ \E k \in DOMAIN sent, w \in DOMAIN written :
            /\ sent[k].pkt.op = ACK
            /\ sent[k].pkt.block = written[w].block
            /\ written[w].n < BlockSize
    \/ /\ openMode = "read"
       /\ \E t \in DOMAIN tasks, k \in DOMAIN sent :
            /\ tasks[t].pkt.op = ACK
            /\ tasks[t].pkt.from = ClientA
            /\ k <= tasks[t].seen
            /\ sent[k].pkt.op = DATA
            /\ sent[k].pkt.block = tasks[t].pkt.block
            /\ sent[k].pkt.len < BlockSize

C35_CompletedTransferEndsSilently ==
    (TransferComplete /\ ~ctxCancelled) =>
        \A k \in DOMAIN sent : ~(sent[k].id = 0 /\ sent[k].pkt.op = ERROR)


\* C36: a session that ended because of a timeout or of a failed setup
\* reports an error value other than nil on its completion channel.
C36_TerminatingErrorIsReported ==
    (pc = "report" /\ (timeouts > 0 \/ file = "none")) => doneErr # "nil"


\* C37: a write request for a file that exists fails at open: the session
\* gets no file stream (so nothing of it is written to the file), sends the
\* one ERROR "file already exists", never ACK(0), and closes its endpoint;
\* and of the write sessions for one filename at most one opens the file and
\* at most one sends ACK(0).
WrqOpened(i) == sessions[i].req.op = WRQ /\ sessions[i].file # "none"

SentAckZero(i) == \E k \in DOMAIN sessions[i].sent : sessions[i].sent[k] = createAckPacket(0)

FoundFileExisting(i) ==
    \E k \in DOMAIN sessions[i].sent : sessions[i].sent[k] = errFileExists

ShortPacket(pak) == ~pak.err /\ pak.size < HeaderSize

C38_ShortDatagramRejected ==
    /\ file # "none" => (tasks # <<>> /\ readFilename(tasks[1].pkt))
    /\ (tasks = <<>> /\ ~readFilename(lastPacket)) =>
           /\ pc \in {"setup", "report", "panic"}
           /\ file = "none"
           /\ written = <<>>
           /\ \A k \in DOMAIN sent : sent[k].pkt.op = ERROR
           /\ pc = "report" => doneErr = "setupErr"
    /\ \A t \in DOMAIN tasks :
           (t > 1 /\ ShortPacket(tasks[t].pkt) /\ tasks[t].pc # "spawned") =>
               /\ tasks[t].resp = internalErrorPacket
               /\ openMode = "write" => tasks[t].n = -1
               /\ \A k \in DOMAIN sent : sent[k].id = t => sent[k].pkt.op = ERROR

\* a write session has answered a DATA packet of 3 bytes
C38_Witness ==
    /\ openMode = "write"
    /\ \E t \in DOMAIN tasks :
        /\ tasks[t].pkt = ShortDatagram(DATA)
        /\ tasks[t].pc = "done"
        /\ \E k \in DOMAIN sent : sent[k].id = t


\* C39: a reader of Conn.Read is finished once its Request has been
\* received: after a failed or cancelled read it does not go on to send a
\* second Request, one that reports success.
C39_OneRequestPerRead ==
    \A r \in DOMAIN readers : readers[r].pc # "send2"

============================================================================
